---- MODULE Spec2Model ----
(***************************************************************************)
(* subreddit-trends: the fetch orchestrator and schema normaliser          *)
(* (reddit_scraper.py), the storage backends (storage_backends.py) and the *)
(* two command entry points (cli/main.py, main.py).                        *)
(*                                                                         *)
(* Python values that may be None, unbound or of more than one type are    *)
(* tagged records; plain str values are TLA+ strings, so that f-strings    *)
(* are string concatenation and destinations can be parsed back.           *)
(***************************************************************************)
EXTENDS Integers, Sequences, FiniteSets, TLC

VARIABLES
    pc,          \* control position of the running call / command
    call,        \* arguments of the running get_*_submission call
    cursor,      \* state of the lazy listing returned by .top() / .hot()
    timestamp,   \* local `timestamp` of _parse_submission
    submission,  \* loop variable of _parse_submission
    data,        \* local list `data` of _parse_submission
    df,          \* local `df` of _parse_submission (unbound until assigned)
    ret,         \* outcome of the fetch call: nothing yet, a value, an exception
    requests,    \* number of listings requested from the remote API
    results,     \* heap of ScrapeResult objects, by identity
    constructed, \* the field values each ScrapeResult was constructed with
    files,       \* local file system: path -> table written
    buckets,     \* object store: the buckets that exist
    objects,     \* object store: <<bucket, object name>> -> table uploaded
    clients,     \* LocalS3Storage instances constructed, by their bucket
    effects,     \* log of persistence effects (make_bucket, to_parquet, put_object)
    last,        \* the last storage operation and how it ended
    opts,        \* parsed command-line options of the running command
    storage      \* local `storage` of the command (unbound until assigned)

fetchVars == <<pc, call, cursor, timestamp, submission, data, df, ret, requests>>
worldVars == <<results, constructed, files, buckets, objects, clients, effects, last>>
cmdVars == <<opts, storage>>
vars ==
    <<pc, call, cursor, timestamp, submission, data, df, ret, requests,
      results, constructed, files, buckets, objects, clients, effects,
      last, opts, storage>>

-----------------------------------------------------------------------------
(* Bounds of the model.                                                    *)

MaxSubmissions == 2
MaxItems == 1
NumTimeFilters == 2
NumInstants == 2

-----------------------------------------------------------------------------
(* Python values.                                                          *)

PyNone == [type |-> "NoneType"]
Unbound == [type |-> "unbound"]
PyInt(n) == [type |-> "int", v |-> n]
PyStr(s) == [type |-> "str", v |-> s]
PyDict(d) == [type |-> "dict", v |-> d]
EmptyDict == [k \in {} |-> 0]

\* getattr(obj, name, default)
Getattr(obj, name, default) == IF name \in DOMAIN obj THEN obj[name] ELSE default

\* str(v) as an f-string replacement field renders it
Format(v) == IF v = PyNone THEN "None" ELSE v.v

Digit == <<"0", "1", "2", "3", "4", "5", "6", "7", "8", "9">>

Pad2(n) == Digit[((n \div 10) % 10) + 1] \o Digit[(n % 10) + 1]

\* datetime.strftime("%Y%m%d_%H%M%S") of an instant given in seconds after
\* 2025-01-01 00:00:00 local time (instants within January 2025).
Strftime(t) ==
    "2025" \o "01" \o Pad2((t \div 86400) + 1) \o "_"
        \o Pad2((t % 86400) \div 3600) \o Pad2((t % 3600) \div 60) \o Pad2(t % 60)

InstantSeq == <<70, 660, 86470, 3600>>
Instants == {InstantSeq[k] : k \in 1..NumInstants}

TimeFilterSeq == <<"week", "day", "hour", "month", "year", "all">>
TimeFilter == {TimeFilterSeq[k] : k \in 1..NumTimeFilters}

Subreddits == {"aww", "pics"}

-----------------------------------------------------------------------------
(* Raw submissions, as the API client hands them over.  An attribute that  *)
(* the object does not have is a field the record does not have.           *)

Optional(name, vals) == {EmptyDict} \cup {name :> v : v \in vals}

Merge(A, B) == {a @@ b : a \in A, b \in B}

GalleryData ==
    {PyNone, PyDict(EmptyDict)}
        \cup {PyDict([items |-> [i \in 1..n |-> "media"]]) : n \in 0..MaxItems}

RawSubmissions ==
    Merge(Merge(Optional("is_gallery", BOOLEAN), Optional("gallery_data", GalleryData)),
          Merge(Optional("post_hint", {"image", "link"}),
                {[score |-> s] : s \in {PyInt(5), PyStr("n/a")}}))

Raise(e) == [kind |-> "exception", exc |-> e]
Value(v) == [kind |-> "value", value |-> v]
Nothing == [kind |-> "none"]

\* dict.get(key, default) on the value of gallery_data
DictGet(d, key, default) == IF key \in DOMAIN d.v THEN d.v[key] ELSE default

ParseRowBuggyPriority(s) ==
    LET is_gallery == Getattr(s, "is_gallery", FALSE)
        gallery_data == Getattr(s, "gallery_data", PyDict(EmptyDict))
    IN  IF Getattr(s, "post_hint", "") = "image"
        THEN Value([post_type |-> "single_image", num_of_images |-> 1,
                    is_gallery |-> is_gallery, score |-> s.score])
        ELSE IF is_gallery
        THEN IF gallery_data.type # "dict"
             THEN Raise("AttributeError")
             ELSE Value([post_type |-> "image_gallery",
                         num_of_images |-> Len(DictGet(gallery_data, "items", <<>>)),
                         is_gallery |-> is_gallery, score |-> s.score])
        ELSE Value([post_type |-> "other", num_of_images |-> 0,
                    is_gallery |-> is_gallery, score |-> s.score])

ParseRowGalleryAsOne(s) ==
    LET is_gallery == Getattr(s, "is_gallery", FALSE)
        gallery_data == Getattr(s, "gallery_data", PyDict(EmptyDict))
    IN  IF is_gallery
        THEN IF gallery_data.type # "dict"
             THEN Raise("AttributeError")
             ELSE Value([post_type |-> "image_gallery",
                         num_of_images |-> 1,
                         is_gallery |-> is_gallery, score |-> s.score])
        ELSE IF Getattr(s, "post_hint", "") = "image"
        THEN Value([post_type |-> "single_image", num_of_images |-> 1,
                    is_gallery |-> is_gallery, score |-> s.score])
        ELSE Value([post_type |-> "other", num_of_images |-> 0,
                    is_gallery |-> is_gallery, score |-> s.score])

\* reddit_scraper.py:50-82: the row appended for one submission, or the
\* exception the loop body raises.
ParseRow(s) ==
    LET is_gallery == Getattr(s, "is_gallery", FALSE)
        gallery_data == Getattr(s, "gallery_data", PyDict(EmptyDict))
    IN  IF is_gallery
        THEN IF gallery_data.type # "dict"
             THEN Raise("AttributeError")
             ELSE Value([post_type |-> "image_gallery",
                         num_of_images |-> Len(DictGet(gallery_data, "items", <<>>)),
                         is_gallery |-> is_gallery, score |-> s.score])
        ELSE IF Getattr(s, "post_hint", "") = "image"
        THEN Value([post_type |-> "single_image", num_of_images |-> 1,
                    is_gallery |-> is_gallery, score |-> s.score])
        ELSE Value([post_type |-> "other", num_of_images |-> 0,
                    is_gallery |-> is_gallery, score |-> s.score])

\* a pandas DataFrame: its rows, in order
DataFrame(rows) == [type |-> "DataFrame", rows |-> rows]

\* reddit_scraper.py:84-103: DataFrame(data).astype({... "score": "int64" ...})
Astype(rows) ==
    IF \E i \in DOMAIN rows : rows[i].score.type # "int"
    THEN Raise("ValueError")
    ELSE Value(DataFrame([i \in DOMAIN rows |-> [rows[i] EXCEPT !.score = rows[i].score.v]]))

\* the dataclass ScrapeResult (reddit_scraper.py:9-15)
ScrapeResult(table, api_method, subreddit, time_filter, ts) ==
    [df |-> table, api_method |-> api_method, subreddit |-> subreddit,
     time_filter |-> time_filter, timestamp |-> ts]

NoResult == ScrapeResult(DataFrame(<<>>), "", "", PyNone, "")

NoCall == [api_method |-> "", subreddit_name |-> "", time_filter |-> PyNone, limit |-> 0]
NoCursor == [yielded |-> 0, status |-> "none"]

\* The frame of _parse_submission is gone once the call returns or raises.
DropFrame ==
    /\ timestamp' = ""
    /\ submission' = Unbound
    /\ data' = <<>>
    /\ df' = Unbound

\* reddit_scraper.py:133-142 and 41-43: the listing is requested (lazily), then
\* _parse_submission starts: timestamp taken once, data = [].
get_top_submission(subreddit_name, time_filter, limit, now) ==
    /\ call' = [api_method |-> "top", subreddit_name |-> subreddit_name,
                time_filter |-> PyStr(time_filter), limit |-> limit]
    /\ cursor' = [yielded |-> 0, status |-> "open"]
    /\ requests' = requests + 1
    /\ timestamp' = Strftime(now)
    /\ data' = <<>>
    /\ pc' = "loop"
    /\ UNCHANGED <<submission, df, ret>>

\* reddit_scraper.py:154-158 and 41-43: time_filter keeps its default, None.
get_hot_submission(subreddit_name, limit, now) ==
    /\ call' = [api_method |-> "hot", subreddit_name |-> subreddit_name,
                time_filter |-> PyNone, limit |-> limit]
    /\ cursor' = [yielded |-> 0, status |-> "open"]
    /\ requests' = requests + 1
    /\ timestamp' = Strftime(now)
    /\ data' = <<>>
    /\ pc' = "loop"
    /\ UNCHANGED <<submission, df, ret>>

\* One iteration of the for loop (reddit_scraper.py:45-103): the cursor yields
\* a submission, the row is built and appended, the table is rebuilt and cast.
LoopBody(s) ==
    LET row == ParseRow(s)
        cast == IF row.kind = "value" THEN Astype(Append(data, row.value)) ELSE row
    IN  /\ cursor' = [cursor EXCEPT !.yielded = @ + 1]
        /\ IF cast.kind = "value"
           THEN /\ submission' = s
                /\ data' = Append(data, row.value)
                /\ df' = cast.value
                /\ UNCHANGED <<pc, ret, timestamp>>
           ELSE /\ pc' = "raised"
                /\ ret' = cast
                /\ DropFrame
        /\ UNCHANGED <<call, requests>>

Iterate ==
    /\ pc = "loop"
    /\ cursor.status = "open"
    /\ cursor.yielded < call.limit
    /\ \E s \in RawSubmissions : LoopBody(s)

\* The remote call behind the cursor fails (not found, forbidden, transport).
CursorFails ==
    /\ pc = "loop"
    /\ cursor.status = "open"
    /\ cursor' = [cursor EXCEPT !.status = "failed"]
    /\ pc' = "raised"
    /\ ret' = Raise("RemoteFetchError")
    /\ DropFrame
    /\ UNCHANGED <<call, requests>>

\* reddit_scraper.py:105-111: the cursor is exhausted, the loop ends and the
\* ScrapeResult is built from the locals; `df` is bound only by the loop body.
Return ==
    /\ pc = "loop"
    /\ cursor.status = "open"
    /\ cursor' = [cursor EXCEPT !.status = "exhausted"]
    /\ IF df = Unbound
       THEN /\ pc' = "raised"
            /\ ret' = Raise("UnboundLocalError")
       ELSE /\ pc' = "returned"
            /\ ret' = Value(ScrapeResult(df, call.api_method, call.subreddit_name,
                                         call.time_filter, timestamp))
    /\ DropFrame
    /\ UNCHANGED <<call, requests>>

-----------------------------------------------------------------------------
(* Storage backends (storage_backends.py).                                 *)

\* dict / mapping update: f with key k bound to v
Put(f, k, v) == [x \in DOMAIN f \cup {k} |-> IF x = k THEN v ELSE f[x]]

Directory == [type |-> "dir"]

\* pathlib.Path(__file__).resolve().parents[2]
BaseDir == "/repo"

Sentinel == "at_point_in_time"

\* storage_backends.py:27: base_dir / "data" / result.subreddit / result.api_method
DataDir(r) == BaseDir \o "/" \o "data" \o "/" \o r.subreddit \o "/" \o r.api_method

\* storage_backends.py:28: mkdir(parents=True, exist_ok=True)
Mkdir(fs, r) ==
    Put(Put(Put(fs, BaseDir \o "/" \o "data", Directory),
            BaseDir \o "/" \o "data" \o "/" \o r.subreddit, Directory),
        DataDir(r), Directory)

\* storage_backends.py:33-35
FileNameNoTimestamp(r) == r.api_method \o "_" \o Format(r.time_filter) \o ".parquet"

FileName(r) ==
    r.api_method \o "_" \o Format(r.time_filter) \o "_" \o r.timestamp \o ".parquet"

\* storage_backends.py:36
FilePath(r) == DataDir(r) \o "/" \o FileName(r)

\* storage_backends.py:59
ObjectName(r) ==
    r.subreddit \o "/" \o r.api_method \o "/" \o Format(r.time_filter) \o "/"
        \o r.timestamp \o ".parquet"

\* the fields a destination is derived from
KeyOf(r) == [subreddit |-> r.subreddit, api_method |-> r.api_method,
             time_filter |-> r.time_filter, timestamp |-> r.timestamp]

Ended(op, i, bucket, exc) ==
    [op |-> op, result |-> i, bucket |-> bucket, exc |-> exc, existed |-> FALSE,
     made |-> FALSE]

\* storage_backends.py:30-31
WithSentinel(r) ==
    IF r.time_filter = PyNone THEN [r EXCEPT !.time_filter = PyStr(Sentinel)] ELSE r

\* storage_backends.py:20-38, LocalStorage.save_parquet(result) on results[i]
LocalStorage_save_parquet(i) ==
    LET result == results[i]
        filled == WithSentinel(result)
    IN  IF Len(result.df.rows) = 0
        THEN /\ last' = Ended("LocalStorage.save_parquet", i, "", "ValueError")
             /\ UNCHANGED <<results, constructed, files, buckets, objects, clients, effects>>
        ELSE /\ results' = [results EXCEPT ![i] = filled]
             /\ files' = Put(Mkdir(files, result), FilePath(filled), filled.df)
             /\ effects' = effects \cup
                    {[op |-> "to_parquet", backend |-> "local", bucket |-> "",
                      dest |-> FilePath(filled), key |-> KeyOf(filled),
                      rows |-> Len(filled.df.rows), result |-> i]}
             /\ last' = Ended("LocalStorage.save_parquet", i, "", "")
             /\ UNCHANGED <<constructed, buckets, objects, clients>>

\* Minio.make_bucket: creating a bucket that exists is an error of the store
MakeBucket(bs, bucket) ==
    IF bucket \in bs THEN Raise("BucketAlreadyOwnedByYou") ELSE Value(bs \cup {bucket})

\* storage_backends.py:47-48: whether __init__ goes on to call make_bucket
MustMakeBucketAlways(exists) == TRUE

MustMakeBucket(exists) == ~exists

\* storage_backends.py:42-50, LocalS3Storage(access_key, secret_key, bucket);
\* `reachable`: whether the object store answers bucket_exists
LocalS3Storage_init(bucket, reachable) ==
    LET exists == bucket \in buckets
        made == IF MustMakeBucket(exists) THEN MakeBucket(buckets, bucket) ELSE Value(buckets)
    IN  IF ~reachable
        THEN /\ last' = Ended("LocalS3Storage.__init__", 0, bucket, "S3Error")
             /\ UNCHANGED <<results, constructed, files, buckets, objects, clients, effects>>
        ELSE IF made.kind = "exception"
        THEN /\ last' = [Ended("LocalS3Storage.__init__", 0, bucket, made.exc)
                            EXCEPT !.existed = exists]
             /\ UNCHANGED <<results, constructed, files, buckets, objects, clients, effects>>
        ELSE /\ buckets' = made.value
             /\ clients' = clients \cup {bucket}
             /\ effects' = IF MustMakeBucket(exists)
                           THEN effects \cup
                                {[op |-> "make_bucket", backend |-> "minio", bucket |-> bucket,
                                  dest |-> "", key |-> KeyOf(NoResult), rows |-> 0,
                                  result |-> 0]}
                           ELSE effects
             /\ last' = [Ended("LocalS3Storage.__init__", 0, bucket, "")
                            EXCEPT !.existed = exists, !.made = MustMakeBucket(exists)]
             /\ UNCHANGED <<results, constructed, files, objects>>

\* Minio.put_object: an upload to a bucket that does not exist is an error
PutObject(os, bs, bucket, name, table) ==
    IF bucket \notin bs THEN Raise("NoSuchBucket") ELSE Value(Put(os, <<bucket, name>>, table))

\* storage_backends.py:52-63, LocalS3Storage.save_parquet(result) on results[i],
\* for the instance whose self.bucket is `bucket`
LocalS3Storage_save_parquet(bucket, i) ==
    LET result == results[i]
        put == PutObject(objects, buckets, bucket, ObjectName(result), result.df)
    IN  IF put.kind = "exception"
        THEN /\ last' = Ended("LocalS3Storage.save_parquet", i, bucket, put.exc)
             /\ UNCHANGED <<results, constructed, files, buckets, objects, clients, effects>>
        ELSE /\ objects' = put.value
             /\ effects' = effects \cup
                    {[op |-> "put_object", backend |-> "minio", bucket |-> bucket,
                      dest |-> ObjectName(result), key |-> KeyOf(result),
                      rows |-> Len(result.df.rows), result |-> i]}
             /\ last' = Ended("LocalS3Storage.save_parquet", i, bucket, "")
             /\ UNCHANGED <<results, constructed, files, buckets, clients>>

-----------------------------------------------------------------------------
(* The state before anything ran.                                          *)

NoOp == [op |-> "none", result |-> 0, bucket |-> "", exc |-> "", existed |-> FALSE,
         made |-> FALSE]
NoOpts == [command |-> "none"]

FetchIdle ==
    /\ pc = "idle"
    /\ call = NoCall
    /\ cursor = NoCursor
    /\ timestamp = ""
    /\ submission = Unbound
    /\ data = <<>>
    /\ df = Unbound
    /\ ret = Nothing
    /\ requests = 0

WorldEmpty ==
    /\ results = <<>>
    /\ constructed = <<>>
    /\ files = EmptyDict
    /\ buckets = {}
    /\ objects = EmptyDict
    /\ clients = {}
    /\ effects = {}
    /\ last = NoOp

CmdIdle ==
    /\ opts = NoOpts
    /\ storage = Unbound

-----------------------------------------------------------------------------
(* SpecFetch: one call of get_top_submission or get_hot_submission.        *)

FetchTop ==
    /\ pc = "idle"
    /\ \E sub \in Subreddits, tf \in TimeFilter, limit \in 1..MaxSubmissions, now \in Instants :
           get_top_submission(sub, tf, limit, now)
    /\ UNCHANGED <<worldVars, cmdVars>>

FetchHot ==
    /\ pc = "idle"
    /\ \E sub \in Subreddits, limit \in 1..MaxSubmissions, now \in Instants :
           get_hot_submission(sub, limit, now)
    /\ UNCHANGED <<worldVars, cmdVars>>

FetchIterate == Iterate /\ UNCHANGED <<worldVars, cmdVars>>
FetchCursorFails == CursorFails /\ UNCHANGED <<worldVars, cmdVars>>
FetchReturn == Return /\ UNCHANGED <<worldVars, cmdVars>>

InitFetch == FetchIdle /\ WorldEmpty /\ CmdIdle

NextFetch == FetchTop \/ FetchHot \/ FetchIterate \/ FetchCursorFails \/ FetchReturn

SpecFetch == InitFetch /\ [][NextFetch]_vars

-----------------------------------------------------------------------------
(* SpecStorage: one ScrapeResult, handed to the storage backends any       *)
(* number of times, in any order, over any initial object store.           *)

SampleRow == [post_type |-> "other", num_of_images |-> 0, is_gallery |-> FALSE, score |-> 5]

Tables == {DataFrame(<<>>), DataFrame(<<SampleRow>>)}

ApiMethods == {"top", "hot"}

ScrapeResults(tables) ==
    {ScrapeResult(t, m, sub, tf, Strftime(now)) :
        t \in tables, m \in ApiMethods, sub \in Subreddits,
        tf \in {PyNone} \cup {PyStr(f) : f \in TimeFilter}, now \in Instants}

SaveLocal ==
    /\ \E i \in DOMAIN results : LocalStorage_save_parquet(i)
    /\ UNCHANGED <<fetchVars, cmdVars>>

NewS3Storage ==
    /\ \E bucket \in Subreddits, reachable \in BOOLEAN : LocalS3Storage_init(bucket, reachable)
    /\ UNCHANGED <<fetchVars, cmdVars>>

SaveS3 ==
    /\ \E bucket \in clients, i \in DOMAIN results : LocalS3Storage_save_parquet(bucket, i)
    /\ UNCHANGED <<fetchVars, cmdVars>>

InitStorage ==
    /\ FetchIdle
    /\ CmdIdle
    /\ \E r \in ScrapeResults(Tables) : results = <<r>>
    /\ constructed = results
    /\ files = EmptyDict
    /\ buckets \in SUBSET Subreddits
    /\ objects = EmptyDict
    /\ clients = {}
    /\ effects = {}
    /\ last = NoOp

NextStorage == SaveLocal \/ NewS3Storage \/ SaveS3

SpecStorage == InitStorage /\ [][NextStorage]_vars

-----------------------------------------------------------------------------
(* SpecKeys: two ScrapeResults with tables to save, a local backend and    *)
(* one object-store backend already constructed.                           *)

InitKeys ==
    /\ FetchIdle
    /\ CmdIdle
    /\ \E r1, r2 \in ScrapeResults({DataFrame(<<SampleRow>>)}) : results = <<r1, r2>>
    /\ constructed = results
    /\ files = EmptyDict
    /\ \E bucket \in Subreddits : buckets = {bucket} /\ clients = {bucket}
    /\ objects = EmptyDict
    /\ effects = {}
    /\ last = NoOp

NextKeys == SaveLocal \/ SaveS3

SpecKeys == InitKeys /\ [][NextKeys]_vars

-----------------------------------------------------------------------------
(* Commands.  A command binds `result` to the fetch's return value (the    *)
(* one object of the heap), picks a backend and saves.  An exception that  *)
(* nothing catches ends the command (pc = "failed").                       *)

LocalStorageInstance == [cls |-> "LocalStorage", bucket |-> ""]
LocalS3StorageInstance(bucket) == [cls |-> "LocalS3Storage", bucket |-> bucket]

\* storage.save_parquet(result): the name `storage` is looked up, then the
\* method of the instance it is bound to runs on the command's result.
CallSaveParquet ==
    IF storage = Unbound
    THEN /\ last' = Ended("storage.save_parquet", 1, "", "UnboundLocalError")
         /\ UNCHANGED <<results, constructed, files, buckets, objects, clients, effects>>
    ELSE IF storage.cls = "LocalStorage"
    THEN LocalStorage_save_parquet(1)
    ELSE LocalS3Storage_save_parquet(storage.bucket, 1)

SwallowAndGoOn ==
    /\ pc = "raised"
    /\ pc' = "select"
    /\ results' = <<ScrapeResult(DataFrame(<<>>), call.api_method, call.subreddit_name,
                                 call.time_filter, "")>>
    /\ constructed' = results'
    /\ UNCHANGED <<call, cursor, timestamp, submission, data, df, ret, requests,
                   files, buckets, objects, clients, effects, last, cmdVars>>

\* The exception of the fetch reaches the top of the command.
Propagate ==
    /\ pc = "raised"
    /\ pc' = "failed"
    /\ UNCHANGED <<call, cursor, timestamp, submission, data, df, ret, requests,
                   worldVars, cmdVars>>

\* cli/main.py:26-35, main.py:22-31: `result = ...` and the `if verbose:`
\* block; typer.echo changes no state.
BindResult ==
    /\ pc = "returned"
    /\ \E verbose \in BOOLEAN :
           /\ results' = <<ret.value>>
           /\ constructed' = <<ret.value>>
    /\ pc' = "select"
    /\ UNCHANGED <<call, cursor, timestamp, submission, data, df, ret, requests,
                   files, buckets, objects, clients, effects, last, cmdVars>>

\* cli/main.py:14-26
CliGetTopSubmissions ==
    /\ pc = "idle"
    /\ \E sub \in Subreddits, tf \in TimeFilter, limit \in 1..MaxSubmissions,
          backend \in {"minio", "local"}, now \in Instants :
           /\ opts' = [command |-> "cli/main.py", subreddit_name |-> sub,
                       time_filter |-> tf, limit |-> limit, save |-> TRUE,
                       storage_backend |-> backend]
           /\ get_top_submission(sub, tf, limit, now)
    /\ UNCHANGED <<worldVars, storage>>

CliIterate == Iterate /\ UNCHANGED <<worldVars, cmdVars>>
CliCursorFails == CursorFails /\ UNCHANGED <<worldVars, cmdVars>>
CliReturn == Return /\ UNCHANGED <<worldVars, cmdVars>>

\* cli/main.py:37-44
CliSelectStorage ==
    /\ pc = "select"
    /\ IF opts.storage_backend = "local"
       THEN /\ storage' = LocalStorageInstance
            /\ pc' = "save"
            /\ UNCHANGED worldVars
       ELSE IF opts.storage_backend = "minio"
       THEN /\ \E reachable \in BOOLEAN : LocalS3Storage_init(results[1].subreddit, reachable)
            /\ IF last'.exc = ""
               THEN storage' = LocalS3StorageInstance(results[1].subreddit) /\ pc' = "save"
               ELSE storage' = storage /\ pc' = "failed"
       ELSE /\ pc' = "save"
            /\ UNCHANGED <<worldVars, storage>>
    /\ UNCHANGED <<call, cursor, timestamp, submission, data, df, ret, requests, opts>>

\* cli/main.py:46
CliSave ==
    /\ pc = "save"
    /\ CallSaveParquet
    /\ pc' = IF last'.exc = "" THEN "done" ELSE "failed"
    /\ UNCHANGED <<call, cursor, timestamp, submission, data, df, ret, requests, cmdVars>>

InitCli ==
    /\ FetchIdle
    /\ CmdIdle
    /\ results = <<>>
    /\ constructed = <<>>
    /\ files = EmptyDict
    /\ buckets \in SUBSET Subreddits
    /\ objects = EmptyDict
    /\ clients = {}
    /\ effects = {}
    /\ last = NoOp

NextCli ==
    \/ CliGetTopSubmissions
    \/ CliIterate
    \/ CliCursorFails
    \/ CliReturn
    \/ Propagate
    \/ BindResult
    \/ CliSelectStorage
    \/ CliSave

SpecCli == InitCli /\ [][NextCli]_vars

-----------------------------------------------------------------------------
(* main.py, the older entry point: --save and a free-text --backend.       *)

Backends == {"local", "minio", "s3"}

\* main.py:10-22
MainGetTopSubmissions ==
    /\ pc = "idle"
    /\ \E sub \in Subreddits, tf \in TimeFilter, limit \in 1..MaxSubmissions,
          save \in BOOLEAN, backend \in Backends, now \in Instants :
           /\ opts' = [command |-> "main.py", subreddit_name |-> sub,
                       time_filter |-> tf, limit |-> limit, save |-> save,
                       storage_backend |-> backend]
           /\ get_top_submission(sub, tf, limit, now)
    /\ UNCHANGED <<worldVars, storage>>

MainIterate == Iterate /\ UNCHANGED <<worldVars, cmdVars>>
MainCursorFails == CursorFails /\ UNCHANGED <<worldVars, cmdVars>>
MainReturn == Return /\ UNCHANGED <<worldVars, cmdVars>>

\* main.py:33-41
MainSelectStorage ==
    /\ pc = "select"
    /\ IF opts.save /\ opts.storage_backend = "local"
       THEN /\ storage' = LocalStorageInstance
            /\ pc' = "save"
            /\ UNCHANGED worldVars
       ELSE IF opts.save /\ opts.storage_backend = "minio"
       THEN /\ \E reachable \in BOOLEAN : LocalS3Storage_init(results[1].subreddit, reachable)
            /\ IF last'.exc = ""
               THEN storage' = LocalS3StorageInstance(results[1].subreddit) /\ pc' = "save"
               ELSE storage' = storage /\ pc' = "failed"
       ELSE /\ pc' = "save"
            /\ UNCHANGED <<worldVars, storage>>
    /\ UNCHANGED <<call, cursor, timestamp, submission, data, df, ret, requests, opts>>

\* main.py:43
MainSave ==
    /\ pc = "save"
    /\ CallSaveParquet
    /\ pc' = IF last'.exc = "" THEN "done" ELSE "failed"
    /\ UNCHANGED <<call, cursor, timestamp, submission, data, df, ret, requests, cmdVars>>

NextMain ==
    \/ MainGetTopSubmissions
    \/ MainIterate
    \/ MainCursorFails
    \/ MainReturn
    \/ Propagate
    \/ BindResult
    \/ MainSelectStorage
    \/ MainSave

SpecMain == InitCli /\ [][NextMain]_vars

-----------------------------------------------------------------------------
(* Properties of the fetch (SpecFetch).                                    *)

HasAttr(s, name) == name \in DOMAIN s

GalleryFlag(s) == HasAttr(s, "is_gallery") /\ s.is_gallery

\* the number of gallery items of a submission, 0 when gallery_data or its
\* item collection is absent
ItemCount(s) ==
    IF ~HasAttr(s, "gallery_data") THEN 0
    ELSE IF "items" \notin DOMAIN s.gallery_data.v THEN 0
    ELSE Len(s.gallery_data.v.items)

ExpectedDecision(s) ==
    IF GalleryFlag(s) THEN <<"image_gallery", ItemCount(s)>>
    ELSE IF HasAttr(s, "post_hint") /\ s.post_hint = "image" THEN <<"single_image", 1>>
    ELSE <<"other", 0>>

Decision(row) == <<row.post_type, row.num_of_images>>

InLoopAfterRow == pc = "loop" /\ submission # Unbound

RowsSeen ==
    {data[i] : i \in DOMAIN data}
        \cup (IF ret.kind = "value" THEN {ret.value.df.rows[i] : i \in DOMAIN ret.value.df.rows}
              ELSE {})

\* C6 as stated: in every row num_of_images is 0 iff post_type is other and
\* is 1 iff post_type is single_image, and a gallery row carries its item count.
C6_JointIff ==
    /\ \A row \in RowsSeen :
           /\ row.num_of_images = 0 <=> row.post_type = "other"
           /\ row.num_of_images = 1 <=> row.post_type = "single_image"
    /\ InLoopAfterRow /\ data[Len(data)].post_type = "image_gallery"
           => data[Len(data)].num_of_images = ItemCount(submission)

\* C6 as amended: post_type other implies num_of_images 0, single_image
\* implies 1, and an image_gallery row carries the gallery item count (0 when
\* unavailable); the converses are not claimed.
C6_JointIf ==
    /\ \A row \in RowsSeen :
           /\ row.post_type = "other" => row.num_of_images = 0
           /\ row.post_type = "single_image" => row.num_of_images = 1
           /\ row.post_type \in {"other", "single_image", "image_gallery"}
    /\ InLoopAfterRow /\ data[Len(data)].post_type = "image_gallery"
           => data[Len(data)].num_of_images = ItemCount(submission)

C6_Witness ==
    /\ ret.kind = "value"
    /\ \E i, j \in DOMAIN ret.value.df.rows :
           /\ Decision(ret.value.df.rows[i]) = <<"image_gallery", 0>>
           /\ Decision(ret.value.df.rows[j]) = <<"image_gallery", 1>>

\* C4 as stated: a fetch whose cursor yields no submission returns a
\* ScrapeResult with a zero-row table and its four metadata fields set.
C4_EmptyFetchReturns ==
    cursor.status = "exhausted" /\ cursor.yielded = 0 =>
        /\ pc = "returned"
        /\ ret.kind = "value"
        /\ Len(ret.value.df.rows) = 0
        /\ ret.value.api_method = call.api_method
        /\ ret.value.subreddit = call.subreddit_name
        /\ ret.value.time_filter = call.time_filter
        /\ ret.value.timestamp # ""

-----------------------------------------------------------------------------
(* Properties of the storage backends (SpecStorage, SpecKeys).             *)

FirstIndex(s, sep) ==
    IF \E i \in 1..Len(s) : SubSeq(s, i, i) = sep
    THEN CHOOSE i \in 1..Len(s) :
             /\ SubSeq(s, i, i) = sep
             /\ \A j \in 1..(i - 1) : SubSeq(s, j, j) # sep
    ELSE 0

RECURSIVE Split(_, _)
Split(s, sep) ==
    LET i == FirstIndex(s, sep)
    IN  IF i = 0 THEN <<s>>
        ELSE <<SubSeq(s, 1, i - 1)>> \o Split(SubSeq(s, i + 1, Len(s)), sep)

\* length of "_YYYYMMDD_HHMMSS.parquet"
TailLen == Len("_") + Len(Strftime(0)) + Len(".parquet")

\* The time-filter position of a destination, read back from the text of the
\* destination: <dir>/<method>/<method>_<filter>_<timestamp>.parquet for a
\* file, <subreddit>/<method>/<filter>/<timestamp>.parquet for an object.
TimeFilterSegment(e) ==
    LET parts == Split(e.dest, "/")
        n == Len(parts)
    IN  IF e.backend = "local"
        THEN SubSeq(parts[n], Len(parts[n - 1]) + 2, Len(parts[n]) - TailLen)
        ELSE parts[n - 1]

Written == {e \in effects : e.op \in {"to_parquet", "put_object"}}

SaveOps == {"LocalStorage.save_parquet", "LocalS3Storage.save_parquet"}

\* C2 as stated: save_parquet of a zero-row result ends in an error on either
\* backend, and no file or object holds or was written from a zero-row table.
C2_EmptySaveFails ==
    /\ last.op \in SaveOps /\ Len(results[last.result].df.rows) = 0 => last.exc # ""
    /\ \A e \in Written : e.rows > 0
    /\ \A k \in DOMAIN objects : Len(objects[k].rows) > 0

\* C3 as stated: whatever was written for a result constructed without a
\* time_filter carries "at_point_in_time" in the time-filter position.
C3_SentinelInDestination ==
    \A e \in Written :
        constructed[e.result].time_filter = PyNone => TimeFilterSegment(e) = Sentinel

\* C5 as stated: every ScrapeResult keeps the field values it was constructed
\* with, whatever was saved.
C5_NeverMutated ==
    \A i \in DOMAIN results : results[i] = constructed[i]

InitOp == "LocalS3Storage.__init__"

\* what holds after every constructor call and every upload
C9_ProvisioningState ==
    /\ last.op = InitOp /\ last.exc = "" => last.bucket \in buckets /\ last.bucket \in clients
    /\ last.op = InitOp /\ last.made => ~last.existed
    /\ last.op = InitOp /\ last.existed => last.exc = "" /\ ~last.made
    /\ clients \subseteq buckets
    /\ \A k \in DOMAIN objects : k[1] \in buckets
    /\ \A e \in Written : e.backend = "minio" => e.bucket \in buckets
    /\ last.exc # "NoSuchBucket"

\* the set of buckets only grows, and only by a constructor adding an absent bucket
C9_ProvisioningStep ==
    /\ buckets \subseteq buckets'
    /\ buckets' # buckets =>
           /\ last'.op = InitOp /\ last'.made /\ last'.bucket \notin buckets
           /\ buckets' = buckets \cup {last'.bucket}

\* C9: after a successful construction the bucket exists; make_bucket runs
\* only when bucket_exists said no; construction over an existing bucket ends
\* without error; the set of buckets changes only by adding an absent bucket
\* in a constructor; every uploaded object lies in an existing bucket.
C9_IdempotentProvisioning == []C9_ProvisioningState /\ [][C9_ProvisioningStep]_vars

C9_Witness ==
    /\ last.op = InitOp /\ last.existed /\ last.exc = ""
    /\ \E k \in DOMAIN objects : k[1] = last.bucket

SameStore(e1, e2) == e1.backend = e2.backend /\ e1.bucket = e2.bucket

\* C7: two writes whose timestamp tokens differ go to different file paths and
\* different object names, and two writes reach the same destination of the
\* same store only when subreddit, api_method, time_filter and timestamp of
\* what they wrote are all equal.
C7_CollisionFree ==
    \A e1, e2 \in Written :
        /\ e1.backend = e2.backend /\ e1.key.timestamp # e2.key.timestamp => e1.dest # e2.dest
        /\ SameStore(e1, e2) /\ e1.dest = e2.dest => e1.key = e2.key

C7_Witness ==
    /\ \E e1, e2 \in Written :
           /\ e1.backend = "local" /\ e2.backend = "local"
           /\ e1.key.timestamp # e2.key.timestamp
           /\ [e1.key EXCEPT !.timestamp = ""] = [e2.key EXCEPT !.timestamp = ""]
           /\ e1.key.time_filter = PyStr(Sentinel)
    /\ \E e1, e2 \in Written :
           /\ e1.backend = "minio" /\ e2.backend = "minio"
           /\ e1.key.timestamp # e2.key.timestamp
           /\ [e1.key EXCEPT !.timestamp = ""] = [e2.key EXCEPT !.timestamp = ""]

\* an overwrite: two results with equal fields written to one destination
C7_Overwrite ==
    \E e1, e2 \in Written :
        e1.result # e2.result /\ SameStore(e1, e2) /\ e1.dest = e2.dest

-----------------------------------------------------------------------------
(* Properties of the commands (SpecCli, SpecMain).                         *)

\* C8: once the fetch of cli/main.py's get_top_submissions has raised, the
\* command is over: no result is bound, one listing was requested, no backend
\* is constructed, no bucket made, no file or object written.
C8_FetchFailureAborts ==
    ret.kind = "exception" =>
        /\ pc \in {"raised", "failed"}
        /\ results = <<>>
        /\ requests = 1
        /\ storage = Unbound
        /\ clients = {}
        /\ effects = {}
        /\ DOMAIN files = {}
        /\ DOMAIN objects = {}
        /\ last = NoOp

C8_Witness ==
    /\ pc = "failed"
    /\ ret = Raise("ValueError")
    /\ cursor.yielded = 2
    /\ opts.storage_backend = "minio"

\* C10 as stated: in main.py's command save_parquet is looked up only on a
\* constructed backend, --save with local or minio writes exactly once, and
\* without --save the command ends normally having persisted nothing.
C10_SaveOnlyIfConstructed ==
    /\ last.op = "storage.save_parquet" => storage # Unbound
    /\ pc \in {"done", "failed"} /\ ret.kind = "value" /\ ~opts.save
           => pc = "done" /\ effects = {}
    /\ pc = "done" /\ opts.save => Cardinality(Written) = 1

====
